---- MODULE Spec2Model ----
(***************************************************************************)
(* State-machine model of src/server.js: one room of the dice/tile game    *)
(* server.  The room's players, status and game object are the state; one  *)
(* action per WebSocket message type that touches the room.                *)
(*                                                                         *)
(* Encoding of JavaScript values:                                          *)
(*   - a tile object {number, worms} is its number (worms is a function of *)
(*     the number); the JavaScript value `undefined` stored in an array of *)
(*     tiles is Undefined;                                                 *)
(*   - room.game = null is NullGame;                                       *)
(*   - an exception thrown inside the message handler is the field `threw` *)
(*     of an operator's result; the handler's catch answers "Server error" *)
(*     and keeps whatever mutation happened before the throw.              *)
(***************************************************************************)
EXTENDS Integers, Sequences, FiniteSets, TLC

VARIABLES
    playersMap,   \* the keys of the players map (registered, connected players)
    roomExists,   \* rooms.has(roomId)
    roomPlayers,  \* room.players
    status,       \* room.status
    game,         \* room.game
    reply,        \* the message just handled and the server's last answer to it
    turns,        \* turn resolutions completed so far (bounds the exploration)
    consumed      \* history: the dice set aside by each face selected this turn

vars == <<playersMap, roomExists, roomPlayers, status, game, reply, turns,
          consumed>>

(***************************************************************************)
(* Bounds of the model and input domains                                   *)
(***************************************************************************)
\* number of turn resolutions explored
MaxTurns == 3

\* identifiers of the registered players that send messages
PlayerIds == {"p1", "p2", "p3"}

\* the face other than "worm" that the modelled dice rolls show
OtherFace == "2"

\* the number of worms in the modelled roll with several worms
WormRun == 5

\* faces named by select_face messages
FaceArgs == {"2", "3", "worm"}

\* tile numbers named by select_tile messages
TileNumberArgs == {20, 24, 25, 36}

(***************************************************************************)
(* Program constants                                                       *)
(***************************************************************************)
Undefined == 0

TILES == [i \in 1..16 |-> 20 + i]

DICE_FACES == <<"1", "2", "3", "4", "5", "worm">>

NullGame == [null |-> TRUE]

Range(s) == {s[i] : i \in 1..Len(s)}

Includes(s, x) == \E i \in 1..Len(s) : s[i] = x

Filter(s, x) == SelectSeq(s, LAMBDA e : e # x)

Count(s, x) == Cardinality({i \in 1..Len(s) : s[i] = x})

NoFaceCounts == [f \in Range(DICE_FACES) |-> 0]

FreshTurnState ==
    [availableDice |-> 8,
     selectedFaces |-> <<>>,
     currentScore  |-> 0,
     hasWorm       |-> FALSE,
     rolledDice    |-> <<>>,
     faceCounts    |-> NoFaceCounts]

initializeGame(players) ==
    [tiles              |-> TILES,
     playerStacks       |-> [p \in Range(players) |-> <<>>],
     stackKeys          |-> players,
     currentPlayerIndex |-> 0,
     currentPlayerId    |-> players[1],
     turnState          |-> FreshTurnState]

ParseInt(face) ==
    CASE face = "1" -> 1
      [] face = "2" -> 2
      [] face = "3" -> 3
      [] face = "4" -> 4
      [] face = "5" -> 5

\* mutant: the worm counted as a sixth pip value
calculateDiceValueSix(face) == IF face = "worm" THEN 6 ELSE ParseInt(face)

calculateDiceValue(face) == IF face = "worm" THEN 5 ELSE ParseInt(face)

(***************************************************************************)
(* processRoll: diceResults stands for the availableDice random draws      *)
(***************************************************************************)
FaceCountsOf(diceResults) ==
    [f \in Range(DICE_FACES) |-> Count(diceResults, f)]

availableFacesOf(turnState, faceCounts) ==
    {f \in Range(DICE_FACES) :
        faceCounts[f] > 0 /\ ~Includes(turnState.selectedFaces, f)}

processRoll(g, diceResults) ==
    LET turnState == g.turnState
        faceCounts == FaceCountsOf(diceResults)
        availableFaces == availableFacesOf(turnState, faceCounts)
    IN  IF turnState.availableDice <= 0
        THEN [valid |-> FALSE, bust |-> FALSE, error |-> "No dice available",
              game |-> g]
        ELSE IF availableFaces = {}
        THEN [valid |-> TRUE, bust |-> TRUE, error |-> "", game |-> g]
        ELSE [valid |-> TRUE, bust |-> FALSE, error |-> "",
              game |-> [g EXCEPT !.turnState.rolledDice = diceResults,
                                 !.turnState.faceCounts = faceCounts]]

(***************************************************************************)
(* selectDiceFace                                                          *)
(***************************************************************************)
\* mutant: without the test for a face selected before
selectDiceFaceUnchecked(g, face) ==
    LET turnState == g.turnState
        count == Count(turnState.rolledDice, face)
        value == calculateDiceValue(face)
        pointsGained == value * count
    IN  IF ~Includes(turnState.rolledDice, face)
        THEN [valid |-> FALSE, error |-> "Face not in current roll", game |-> g]
        ELSE [valid |-> TRUE, error |-> "",
              game |-> [g EXCEPT !.turnState =
                  [availableDice |-> turnState.availableDice - count,
                   selectedFaces |-> Append(turnState.selectedFaces, face),
                   currentScore  |-> turnState.currentScore + pointsGained,
                   hasWorm       |-> IF face = "worm" THEN TRUE
                                     ELSE turnState.hasWorm,
                   rolledDice    |-> <<>>,
                   faceCounts    |-> NoFaceCounts]]]

\* mutant: one die set aside whatever the number of dice showing the face
selectDiceFaceOneDie(g, face) ==
    LET turnState == g.turnState
        count == Count(turnState.rolledDice, face)
        value == calculateDiceValue(face)
        pointsGained == value * count
    IN  IF Includes(turnState.selectedFaces, face)
        THEN [valid |-> FALSE, error |-> "Face already selected this turn",
              game |-> g]
        ELSE IF ~Includes(turnState.rolledDice, face)
        THEN [valid |-> FALSE, error |-> "Face not in current roll", game |-> g]
        ELSE [valid |-> TRUE, error |-> "",
              game |-> [g EXCEPT !.turnState =
                  [availableDice |-> turnState.availableDice - 1,
                   selectedFaces |-> Append(turnState.selectedFaces, face),
                   currentScore  |-> turnState.currentScore + pointsGained,
                   hasWorm       |-> IF face = "worm" THEN TRUE
                                     ELSE turnState.hasWorm,
                   rolledDice    |-> <<>>,
                   faceCounts    |-> NoFaceCounts]]]

selectDiceFace(g, face) ==
    LET turnState == g.turnState
        count == Count(turnState.rolledDice, face)
        value == calculateDiceValue(face)
        pointsGained == value * count
    IN  IF Includes(turnState.selectedFaces, face)
        THEN [valid |-> FALSE, error |-> "Face already selected this turn",
              game |-> g]
        ELSE IF ~Includes(turnState.rolledDice, face)
        THEN [valid |-> FALSE, error |-> "Face not in current roll", game |-> g]
        ELSE [valid |-> TRUE, error |-> "",
              game |-> [g EXCEPT !.turnState =
                  [availableDice |-> turnState.availableDice - count,
                   selectedFaces |-> Append(turnState.selectedFaces, face),
                   currentScore  |-> turnState.currentScore + pointsGained,
                   hasWorm       |-> IF face = "worm" THEN TRUE
                                     ELSE turnState.hasWorm,
                   rolledDice    |-> <<>>,
                   faceCounts    |-> NoFaceCounts]]]

(***************************************************************************)
(* Array.prototype.sort((a, b) => a.number - b.number): the defined tiles  *)
(* ascending by number (stable), every undefined element after them.       *)
(***************************************************************************)
RECURSIVE InsertByNumber(_, _)
InsertByNumber(sorted, t) ==
    IF sorted = <<>> THEN <<t>>
    ELSE IF t < Head(sorted) THEN <<t>> \o sorted
    ELSE <<Head(sorted)>> \o InsertByNumber(Tail(sorted), t)

RECURSIVE SortByNumber(_)
SortByNumber(s) ==
    IF s = <<>> THEN <<>>
    ELSE InsertByNumber(SortByNumber(SubSeq(s, 1, Len(s) - 1)), s[Len(s)])

SortTiles(s) ==
    SortByNumber(SelectSeq(s, LAMBDA t : t # Undefined))
        \o SelectSeq(s, LAMBDA t : t = Undefined)

Pop(stack) == SubSeq(stack, 1, Len(stack) - 1)

Top(stack) == stack[Len(stack)]

(***************************************************************************)
(* "Next player's turn" and "Reset turn state", the common tail of         *)
(* endPlayerTurnBust and endPlayerTurn                                     *)
(***************************************************************************)
NextPlayer(players, g) ==
    LET next == (g.currentPlayerIndex + 1) % Len(players)
    IN  [g EXCEPT !.currentPlayerIndex = next,
                  !.currentPlayerId = players[next + 1],
                  !.turnState = FreshTurnState]

\* mutant: the game-over test with the comparison inverted
isGameOverInverted(g) == Len(g.tiles) # 0

\* "Check if game is over"
isGameOver(g) == Len(g.tiles) = 0

(***************************************************************************)
(* endPlayerTurnBust (called by the stop_turn handler)                     *)
(***************************************************************************)
endPlayerTurnBust(players, g, playerId) ==
    LET turnState == g.turnState
        stack == g.playerStacks[playerId]
        g1 == IF ~turnState.hasWorm /\ Len(stack) > 0
              THEN [g EXCEPT !.playerStacks[playerId] = Pop(stack),
                             !.tiles = SortTiles(Append(g.tiles, Top(stack)))]
              ELSE g
    IN  IF isGameOver(g1)
        THEN [gameOver |-> TRUE, threw |-> FALSE, game |-> g1]
        ELSE [gameOver |-> FALSE, threw |-> FALSE,
              game |-> NextPlayer(players, g1)]

(***************************************************************************)
(* endPlayerTurn(room, tile, playerId)                                     *)
(*   tile is the second argument as a JavaScript value: an object with a   *)
(*   number, a string (the bust branch passes data.playerId here) or       *)
(*   undefined (select_tile without a tile).  playerId is NoPlayer when    *)
(*   the third argument is not passed.                                     *)
(***************************************************************************)
NoPlayer == "undefined"

TileObject(n) == [type |-> "object", number |-> n]

StringArg == [type |-> "string", number |-> Undefined]

UndefinedArg == [type |-> "undefined", number |-> Undefined]

\* game.tiles.findIndex((t) => t.number === number): 0-based index, -1 when
\* absent; reading t.number of an undefined element throws
findIndexThrows(tiles, number) ==
    \E i \in 1..Len(tiles) :
        /\ tiles[i] = Undefined
        /\ \A j \in 1..(i - 1) : tiles[j] # number

findIndex(tiles, number) ==
    IF \E i \in 1..Len(tiles) : tiles[i] = number
    THEN (CHOOSE i \in 1..Len(tiles) :
              /\ tiles[i] = number
              /\ \A j \in 1..(i - 1) : tiles[j] # number) - 1
    ELSE -1

\* mutant: the element before start is removed (splice(tileIndex, 1))
SpliceOneBefore(tiles, start) ==
    [taken |-> tiles[start],
     rest  |-> SubSeq(tiles, 1, start - 1) \o SubSeq(tiles, start + 1, Len(tiles))]

\* game.tiles.splice(start, 1) for a 0-based start
SpliceOne(tiles, start) ==
    IF start < Len(tiles)
    THEN [taken |-> tiles[start + 1],
          rest  |-> SubSeq(tiles, 1, start) \o SubSeq(tiles, start + 2, Len(tiles))]
    ELSE [taken |-> Undefined, rest |-> tiles]

\* positions in Object.entries(game.playerStacks) the steal loop stops at:
\* another player's non-empty stack whose top is undefined (topTile.number
\* throws) or has the score as its number
StealStops(g, playerId, score) ==
    {i \in 1..Len(g.stackKeys) :
        LET pid == g.stackKeys[i]
            stack == g.playerStacks[pid]
        IN  /\ pid # playerId
            /\ Len(stack) > 0
            /\ (Top(stack) = Undefined \/ Top(stack) = score)}

Min(S) == CHOOSE x \in S : \A y \in S : x <= y

endPlayerTurn(players, g, tile, playerId) ==
    LET number == tile.number
        score == g.turnState.currentScore
        tileIndex == findIndex(g.tiles, number)
        spliced == SpliceOne(g.tiles, tileIndex + 1)
        stops == StealStops(g, playerId, score)
        victim == g.stackKeys[Min(stops)]
        victimStack == g.playerStacks[victim]
        hasOwnStack == playerId \in DOMAIN g.playerStacks
        done(g1) == IF isGameOver(g1)
                    THEN [gameOver |-> TRUE, threw |-> FALSE, game |-> g1]
                    ELSE [gameOver |-> FALSE, threw |-> FALSE,
                          game |-> NextPlayer(players, g1)]
        abort(g1) == [gameOver |-> FALSE, threw |-> TRUE, game |-> g1]
    IN  IF tile.type = "undefined" THEN abort(g)
        ELSE IF findIndexThrows(g.tiles, number) THEN abort(g)
        ELSE IF tileIndex > -1
        THEN IF hasOwnStack
             THEN done([g EXCEPT !.tiles = spliced.rest,
                                 !.playerStacks[playerId] =
                                     Append(@, spliced.taken)])
             ELSE abort([g EXCEPT !.tiles = spliced.rest])
        ELSE IF stops = {} THEN done(g)
        ELSE IF Top(victimStack) = Undefined THEN abort(g)
        ELSE IF hasOwnStack
             THEN done([g EXCEPT !.playerStacks =
                          [@ EXCEPT ![victim] = Pop(victimStack),
                                    ![playerId] = Append(@, Top(victimStack))]])
             ELSE abort([g EXCEPT !.playerStacks[victim] = Pop(victimStack)])

\* calculateWinner and the finalScores reduce read tile.worms of every stack
\* element, which throws on an undefined element
winnerThrows(g) ==
    \E p \in DOMAIN g.playerStacks : Includes(g.playerStacks[p], Undefined)

\* the worms field of the tile with this number
worms(number) == ((number - 21) \div 4) + 1

\* stack.reduce((sum, tile) => sum + tile.worms, 0)
RECURSIVE totalWorms(_)
totalWorms(stack) ==
    IF stack = <<>> THEN 0
    ELSE totalWorms(Pop(stack)) + worms(Top(stack))

\* mutant: a later participant with the same total replaces the earlier one
beatsOrTies(total, maxWorms) == total >= maxWorms

\* if (totalWorms > maxWorms)
beats(total, maxWorms) == total > maxWorms

\* the loop of calculateWinner from the i-th entry of game.playerStacks on
RECURSIVE winnerFrom(_, _, _, _)
winnerFrom(g, i, maxWorms, winnerId) ==
    IF i > Len(g.stackKeys)
    THEN [threw |-> FALSE, winnerId |-> winnerId, worms |-> maxWorms]
    ELSE LET total == totalWorms(g.playerStacks[g.stackKeys[i]])
         IN  IF beats(total, maxWorms)
             THEN winnerFrom(g, i + 1, total, g.stackKeys[i])
             ELSE winnerFrom(g, i + 1, maxWorms, winnerId)

calculateWinner(g) ==
    IF winnerThrows(g)
    THEN [threw |-> TRUE, winnerId |-> "null", worms |-> -1]
    ELSE winnerFrom(g, 1, -1, "null")

(***************************************************************************)
(* The message handlers.  reply records the message just handled and the   *)
(* last message the server sent in answer to it.                           *)
(***************************************************************************)
NoArg == [type |-> "none", number |-> Undefined]

\* dice is the roll drawn by processRoll while the message was handled
Reply(type, playerId, face, tile, out, error) ==
    [type |-> type, playerId |-> playerId, face |-> face, tile |-> tile,
     out |-> out, error |-> error, dice |-> <<>>]

Error(type, playerId, face, tile, message) ==
    Reply(type, playerId, face, tile, "error", message)

WithDice(r, diceResults) == [r EXCEPT !.dice = diceResults]

gameFound == roomExists /\ game # NullGame

\* the history variable: a successful select_face appends the number of dice
\* showing the face, a new turn state (or no game) starts an empty history
Track ==
    consumed' =
        IF game' = NullGame THEN <<>>
        ELSE IF reply'.out = "face_selected"
        THEN Append(consumed, Count(game.turnState.rolledDice, reply'.face))
        ELSE IF game'.turnState.selectedFaces = <<>> THEN <<>>
        ELSE consumed

host == "p1"

\* mutant: the turn check compares the sender with the room's host
notYourTurnHost(g, p) == host # p

\* "if (room.game.currentPlayerId !== data.playerId)" of the four game handlers
notYourTurn(g, p) == g.currentPlayerId # p

\* the dice rolls explored: n dice of which w show "worm" and the rest
\* OtherFace, for w no worm, one worm, WormRun worms or all worms
Rolls(n) ==
    {[i \in 1..n |-> IF i <= w THEN "worm" ELSE OtherFace] :
        w \in {0, 1, WormRun, n} \cap 0..n}

Init ==
    /\ playersMap = PlayerIds
    /\ roomExists = TRUE
    /\ roomPlayers = <<"p1">>
    /\ status = "waiting"
    /\ game = NullGame
    /\ reply = Reply("create_room", "p1", "", NoArg, "room_created", "")
    /\ turns = 0
    /\ consumed = <<>>

\* case "join_room"
JoinRoom(p) ==
    /\ turns < MaxTurns
    /\ UNCHANGED playersMap
    /\ UNCHANGED <<roomExists, status, game, turns>>
    /\ IF ~roomExists
       THEN /\ reply' = Error("join_room", p, "", NoArg, "Room not found")
            /\ UNCHANGED roomPlayers
       ELSE IF p \notin playersMap
       THEN /\ reply' = Error("join_room", p, "", NoArg, "Player not found")
            /\ UNCHANGED roomPlayers
       ELSE IF status # "waiting"
       THEN /\ reply' = Error("join_room", p, "", NoArg, "Game already started")
            /\ UNCHANGED roomPlayers
       ELSE IF Len(roomPlayers) >= 7
       THEN /\ reply' = Error("join_room", p, "", NoArg, "Room is full")
            /\ UNCHANGED roomPlayers
       ELSE /\ roomPlayers' = IF Includes(roomPlayers, p) THEN roomPlayers
                              ELSE Append(roomPlayers, p)
            /\ reply' = Reply("join_room", p, "", NoArg, "room_updated", "")
    /\ Track

\* case "start_game"
StartGame(p) ==
    /\ turns < MaxTurns
    /\ UNCHANGED playersMap
    /\ UNCHANGED <<roomExists, roomPlayers>>
    /\ IF ~roomExists
       THEN /\ reply' = Error("start_game", p, "", NoArg, "Room not found")
            /\ UNCHANGED <<status, game, turns>>
       ELSE IF host # p
       THEN /\ reply' = Error("start_game", p, "", NoArg, "Only host can start game")
            /\ UNCHANGED <<status, game, turns>>
       ELSE IF Len(roomPlayers) < 2
       THEN /\ reply' = Error("start_game", p, "", NoArg, "Need at least 2 players")
            /\ UNCHANGED <<status, game, turns>>
       ELSE /\ game' = initializeGame(roomPlayers)
            /\ status' = "playing"
            /\ reply' = Reply("start_game", p, "", NoArg, "game_started", "")
            /\ UNCHANGED turns
    /\ Track

\* mutant: the handlers' game-over test negated
ResolvedNegated(type, p, tile, dice, result, out) ==
    /\ game' = result.game
    /\ IF result.threw
       THEN /\ reply' = WithDice(Error(type, p, "", tile, "Server error"), dice)
            /\ UNCHANGED <<status, turns>>
       ELSE IF result.gameOver
       THEN /\ reply' = WithDice(Reply(type, p, "", tile, out, ""), dice)
            /\ turns' = turns + 1
            /\ UNCHANGED status
       ELSE /\ reply' = WithDice(Reply(type, p, "", tile, "game_over", ""), dice)
            /\ turns' = turns + 1
            /\ status' = "finished"

\* the "if (...gameOver)" tail shared by the three resolving handlers
Resolved(type, p, tile, dice, result, out) ==
    /\ game' = result.game
    /\ IF result.threw
       THEN /\ reply' = WithDice(Error(type, p, "", tile, "Server error"), dice)
            /\ UNCHANGED <<status, turns>>
       ELSE IF ~result.gameOver
       THEN /\ reply' = WithDice(Reply(type, p, "", tile, out, ""), dice)
            /\ turns' = turns + 1
            /\ UNCHANGED status
       ELSE IF winnerThrows(result.game)
       THEN /\ reply' = WithDice(Error(type, p, "", tile, "Server error"), dice)
            /\ turns' = turns + 1
            /\ UNCHANGED status
       ELSE /\ reply' = WithDice(Reply(type, p, "", tile, "game_over", ""), dice)
            /\ turns' = turns + 1
            /\ status' = "finished"

\* case "roll_dice"
RollDice(p) ==
    /\ turns < MaxTurns
    /\ UNCHANGED playersMap
    /\ UNCHANGED <<roomExists, roomPlayers>>
    /\ IF ~gameFound
       THEN /\ reply' = Error("roll_dice", p, "", NoArg, "Game not found")
            /\ UNCHANGED <<status, game, turns>>
       ELSE IF notYourTurn(game, p)
       THEN /\ reply' = Error("roll_dice", p, "", NoArg, "Not your turn")
            /\ UNCHANGED <<status, game, turns>>
       ELSE \E diceResults \in Rolls(IF game.turnState.availableDice > 0
                                     THEN game.turnState.availableDice ELSE 0) :
            LET rollResult == processRoll(game, diceResults)
            IN  IF ~rollResult.valid
                THEN /\ reply' = Error("roll_dice", p, "", NoArg, rollResult.error)
                     /\ UNCHANGED <<status, game, turns>>
                ELSE IF rollResult.bust
                THEN Resolved("roll_dice", p, NoArg, diceResults,
                              endPlayerTurn(roomPlayers, rollResult.game,
                                            StringArg, NoPlayer),
                              "turn_bust")
                ELSE /\ game' = rollResult.game
                     /\ reply' = WithDice(Reply("roll_dice", p, "", NoArg,
                                                "dice_rolled", ""), diceResults)
                     /\ UNCHANGED <<status, turns>>
    /\ Track

\* case "select_face"
SelectFace(p, face) ==
    /\ turns < MaxTurns
    /\ UNCHANGED playersMap
    /\ UNCHANGED <<roomExists, roomPlayers, status, turns>>
    /\ IF ~gameFound
       THEN /\ reply' = Error("select_face", p, "", NoArg, "Game not found")
            /\ UNCHANGED game
       ELSE IF notYourTurn(game, p)
       THEN /\ reply' = Error("select_face", p, "", NoArg, "Not your turn")
            /\ UNCHANGED game
       ELSE LET selectResult == selectDiceFace(game, face)
            IN  IF ~selectResult.valid
                THEN /\ reply' = Error("select_face", p, face, NoArg,
                                       selectResult.error)
                     /\ UNCHANGED game
                ELSE /\ game' = selectResult.game
                     /\ reply' = Reply("select_face", p, face, NoArg,
                                       "face_selected", "")
    /\ Track

\* case "select_tile"
SelectTile(p, tile) ==
    /\ turns < MaxTurns
    /\ UNCHANGED playersMap
    /\ UNCHANGED <<roomExists, roomPlayers>>
    /\ IF ~gameFound
       THEN /\ reply' = Error("select_tile", p, "", NoArg, "Game not found")
            /\ UNCHANGED <<status, game, turns>>
       ELSE IF notYourTurn(game, p)
       THEN /\ reply' = Error("select_tile", p, "", NoArg, "Not your turn")
            /\ UNCHANGED <<status, game, turns>>
       ELSE Resolved("select_tile", p, tile, <<>>,
                     endPlayerTurn(roomPlayers, game, tile, p), "turn_ended")
    /\ Track

\* case "stop_turn"
StopTurn(p) ==
    /\ turns < MaxTurns
    /\ UNCHANGED playersMap
    /\ UNCHANGED <<roomExists, roomPlayers>>
    /\ IF ~gameFound
       THEN /\ reply' = Error("stop_turn", p, "", NoArg, "Game not found")
            /\ UNCHANGED <<status, game, turns>>
       ELSE IF notYourTurn(game, p)
       THEN /\ reply' = Error("stop_turn", p, "", NoArg, "Not your turn")
            /\ UNCHANGED <<status, game, turns>>
       ELSE Resolved("stop_turn", p, NoArg, <<>>,
                     endPlayerTurnBust(roomPlayers, game, p), "turn_ended")
    /\ Track

\* case "leave_room" (a step of SpecLeave; the steps of Spec are the lobby
\* and game messages of the players in the room)
LeaveRoom(p) ==
    /\ turns < MaxTurns
    /\ UNCHANGED playersMap
    /\ roomExists
    /\ roomPlayers' = Filter(roomPlayers, p)
    /\ roomExists' = (Len(roomPlayers') # 0)
    /\ reply' = Reply("leave_room", p, "", NoArg,
                      IF Len(roomPlayers') = 0 THEN "none" ELSE "room_updated", "")
    /\ UNCHANGED <<status, game, turns>>
    /\ Track

TileArgs == {UndefinedArg} \cup {TileObject(n) : n \in TileNumberArgs}

Next ==
    \E p \in PlayerIds :
        \/ JoinRoom(p)
        \/ StartGame(p)
        \/ RollDice(p)
        \/ \E face \in FaceArgs : SelectFace(p, face)
        \/ \E tile \in TileArgs : SelectTile(p, tile)
        \/ StopTurn(p)

Spec == Init /\ [][Next]_vars

(***************************************************************************)
(* The game of two players in which select_tile may also name the lowest   *)
(* tile.                                                                   *)
(***************************************************************************)
SupplyPlayerIds == {"p1", "p2"}

SupplyTileArgs == TileArgs \cup {TileObject(21)}

NextSupply ==
    \E p \in SupplyPlayerIds :
        \/ JoinRoom(p)
        \/ StartGame(p)
        \/ RollDice(p)
        \/ \E face \in FaceArgs : SelectFace(p, face)
        \/ \E tile \in SupplyTileArgs : SelectTile(p, tile)
        \/ StopTurn(p)

SpecSupply == Init /\ [][NextSupply]_vars

(***************************************************************************)
(* The room with players leaving it: the lobby messages and the messages   *)
(* that resolve a turn, sent by players whose connection is open, together *)
(* with leave_room and the close of a player's connection.                 *)
(***************************************************************************)
\* ws.on("close") of the connection of registered player p
Close(p) ==
    /\ turns < MaxTurns
    /\ p \in playersMap
    /\ playersMap' = playersMap \ {p}
    /\ IF roomExists /\ Includes(roomPlayers, p)
       THEN /\ roomPlayers' = Filter(roomPlayers, p)
            /\ roomExists' = (Len(roomPlayers') # 0)
            /\ reply' = Reply("close", p, "", NoArg,
                              IF Len(roomPlayers') = 0 THEN "none"
                              ELSE "room_updated", "")
       ELSE /\ UNCHANGED <<roomExists, roomPlayers>>
            /\ reply' = Reply("close", p, "", NoArg, "none", "")
    /\ UNCHANGED <<status, game, turns>>
    /\ Track

\* a message of type leave_room, or one of Spec's, from an open connection
Connected(p) == p \in playersMap

NextLeave ==
    \E p \in PlayerIds :
        \/ Connected(p) /\ JoinRoom(p)
        \/ Connected(p) /\ StartGame(p)
        \/ Connected(p) /\ \E tile \in TileArgs : SelectTile(p, tile)
        \/ Connected(p) /\ StopTurn(p)
        \/ Connected(p) /\ LeaveRoom(p)
        \/ Close(p)

SpecLeave == Init /\ [][NextLeave]_vars

(***************************************************************************)
(* Vocabulary of the properties                                            *)
(***************************************************************************)
GameMessages == {"roll_dice", "select_face", "select_tile", "stop_turn"}

started == game # NullGame

\* the step handles a message sent by the current participant
ByCurrent == started /\ reply'.playerId = game.currentPlayerId

StopStep == ByCurrent /\ reply'.type = "stop_turn"

\* select_tile that reached the end of endPlayerTurn
TileStep == ByCurrent /\ reply'.type = "select_tile" /\ reply'.out # "error"

TileStepNaming(n) == TileStep /\ reply'.tile = TileObject(n)

\* roll_dice whose roll was a bust (only the bust branch can end in the catch)
BustStep ==
    /\ ByCurrent
    /\ reply'.type = "roll_dice"
    /\ (reply'.out \in {"turn_bust", "game_over"} \/ reply'.error = "Server error")

ResolutionStep == StopStep \/ TileStep \/ BustStep

RECURSIVE ConcatStacks(_, _)
ConcatStacks(stacks, keys) ==
    IF keys = <<>> THEN <<>>
    ELSE stacks[Head(keys)] \o ConcatStacks(stacks, Tail(keys))

AllTiles(g) == g.tiles \o ConcatStacks(g.playerStacks, g.stackKeys)

SameBag(s1, s2) ==
    /\ Len(s1) = Len(s2)
    /\ \A x \in Range(s1) \cup Range(s2) : Count(s1, x) = Count(s2, x)

\* the acting participant loses the top tile of a non-empty stack to the
\* supply and gains nothing; nothing moves when the stack is empty
Forfeited ==
    LET cur == game.currentPlayerId
        stack == game.playerStacks[cur]
    IN  IF stack = <<>>
        THEN /\ game'.playerStacks = game.playerStacks
             /\ game'.tiles = game.tiles
        ELSE /\ game'.playerStacks =
                    [game.playerStacks EXCEPT ![cur] = Pop(stack)]
             /\ SameBag(game'.tiles, Append(game.tiles, Top(stack)))

OthersTopIs(s) ==
    \E b \in DOMAIN game.playerStacks :
        /\ b # game.currentPlayerId
        /\ game.playerStacks[b] # <<>>
        /\ Top(game.playerStacks[b]) = s

Qualifies(s) ==
    /\ game.turnState.hasWorm
    /\ game.turnState.currentScore = s
    /\ s >= 21

Scores == 21..40

(***************************************************************************)
(* C1  Tile conservation: once a game has started, the supply together     *)
(* with all stacks holds each of the 16 tiles exactly once and nothing     *)
(* else.                                                                   *)
(***************************************************************************)
TileConservation ==
    started =>
        /\ Len(AllTiles(game)) = Len(TILES)
        /\ \A i \in 1..Len(TILES) : Count(AllTiles(game), TILES[i]) = 1

(***************************************************************************)
(* C2  Exact match: a turn ended by stop_turn, or by select_tile naming s, *)
(* with a worm, score s >= 21 and tile s in the supply puts exactly tile s *)
(* on top of the acting participant's stack and removes only s from the    *)
(* supply.                                                                 *)
(***************************************************************************)
ExactMatchAcquired ==
    [][\A s \in Scores :
        (/\ StopStep \/ TileStepNaming(s)
         /\ Qualifies(s)
         /\ Includes(game.tiles, s))
        => /\ game'.playerStacks[game.currentPlayerId] # <<>>
           /\ Top(game'.playerStacks[game.currentPlayerId]) = s
           /\ game'.tiles = Filter(game.tiles, s)]_vars

(***************************************************************************)
(* C3  Steal: a turn resolved with a worm and score s >= 21, no tile s in  *)
(* the supply and another participant B with s on top of the stack moves   *)
(* that tile from B to the top of the acting participant's stack, shortens *)
(* B's stack by one and leaves the supply unchanged.                       *)
(***************************************************************************)
StealMovesTile ==
    [][\A s \in Scores :
        (/\ StopStep \/ TileStepNaming(s) \/ BustStep
         /\ Qualifies(s)
         /\ ~Includes(game.tiles, s)
         /\ OthersTopIs(s))
        => LET cur == game.currentPlayerId
               b == CHOOSE b \in DOMAIN game.playerStacks :
                        /\ b # cur
                        /\ game.playerStacks[b] # <<>>
                        /\ Top(game.playerStacks[b]) = s
           IN  /\ game'.playerStacks =
                      [game.playerStacks EXCEPT
                          ![b] = Pop(game.playerStacks[b]),
                          ![cur] = Append(game.playerStacks[cur], s)]
               /\ game'.tiles = game.tiles]_vars

(***************************************************************************)
(* C4  Fallback: a turn resolved with a worm and score s >= 21, no tile s  *)
(* in the supply, no other participant with s on top, and some supply tile *)
(* below s gives the acting participant the largest supply tile below s.   *)
(***************************************************************************)
IsHighestBelow(tiles, s, t) ==
    /\ t # Undefined
    /\ t < s
    /\ \A u \in Range(tiles) : (u # Undefined /\ u < s) => u <= t

HighestBelow(tiles, s) == CHOOSE t \in Range(tiles) : IsHighestBelow(tiles, s, t)

FallbackAcquired ==
    [][\A s \in Scores :
        (/\ started
         /\ StopStep \/ BustStep
            \/ (\E t \in Range(game.tiles) :
                   IsHighestBelow(game.tiles, s, t) /\ TileStepNaming(t))
         /\ Qualifies(s)
         /\ ~Includes(game.tiles, s)
         /\ ~OthersTopIs(s)
         /\ \E t \in Range(game.tiles) : t # Undefined /\ t < s)
        => LET cur == game.currentPlayerId
               f == HighestBelow(game.tiles, s)
           IN  /\ game'.playerStacks[cur] = Append(game.playerStacks[cur], f)
               /\ game'.tiles = Filter(game.tiles, f)]_vars

(***************************************************************************)
(* C5  Forfeiture without a worm: a turn resolved (stop_turn, select_tile  *)
(* or bust) while hasWorm is false acquires nothing; the top tile of a     *)
(* non-empty stack goes back to the supply, an empty stack changes nothing.*)
(***************************************************************************)
NoWormForfeits ==
    [][(ResolutionStep /\ ~game.turnState.hasWorm) => Forfeited]_vars

(***************************************************************************)
(* C6  Forfeiture below the minimum: a turn resolved with a worm but a     *)
(* score below 21 is the same forfeiture.                                  *)
(***************************************************************************)
LowScoreForfeits ==
    [][(/\ ResolutionStep
        /\ game.turnState.hasWorm
        /\ game.turnState.currentScore < 21) => Forfeited]_vars

(***************************************************************************)
(* C7  Game over: the match becomes finished (game_over sent) in exactly   *)
(* the steps that resolve a turn and leave the supply empty; such a step   *)
(* does not advance the current participant, and a resolution that leaves  *)
(* tiles in the supply does not finish the match.                          *)
(***************************************************************************)
BecomesFinished == status # "finished" /\ status' = "finished"

Rotated ==
    LET next == (game.currentPlayerIndex + 1) % Len(roomPlayers)
    IN  /\ game'.currentPlayerIndex = next
        /\ game'.currentPlayerId = roomPlayers[next + 1]
        /\ game'.turnState.availableDice = 8
        /\ game'.turnState.selectedFaces = <<>>
        /\ game'.turnState.currentScore = 0
        /\ game'.turnState.hasWorm = FALSE
        /\ game'.turnState.rolledDice = <<>>

RotationAndReset ==
    [][started =>
        /\ (ResolutionStep /\ Len(game'.tiles) > 0) => Rotated
        /\ (~ResolutionStep /\ reply'.type \in GameMessages) =>
              /\ game'.currentPlayerIndex = game.currentPlayerIndex
              /\ game'.currentPlayerId = game.currentPlayerId]_vars

(***************************************************************************)
(* C9  NotYourTurn: a roll_dice, select_face, select_tile or stop_turn     *)
(* message from a player who is not the current participant is answered    *)
(* with the error "Not your turn" and changes nothing of the game.         *)
(***************************************************************************)
NotYourTurnRejected ==
    [][(/\ started
        /\ reply'.type \in GameMessages
        /\ reply'.playerId # game.currentPlayerId)
       => /\ reply'.out = "error"
          /\ reply'.error = "Not your turn"
          /\ game' = game
          /\ status' = status]_vars

\* a select_tile of a player other than the current one was just rejected
RejectedOutOfTurn ==
    /\ started
    /\ reply.type = "select_tile"
    /\ reply.playerId # game.currentPlayerId
    /\ reply.error = "Not your turn"

RollStep == ByCurrent /\ reply'.type = "roll_dice"

NoSilentReRoll ==
    [][RollStep =>
        /\ game.turnState.rolledDice # <<>> =>
              /\ reply'.out = "error"
              /\ game'.turnState.rolledDice = game.turnState.rolledDice
              /\ game'.turnState.faceCounts = game.turnState.faceCounts
        /\ game.turnState.availableDice = 0 =>
              /\ reply'.out = "error"
              /\ game' = game]_vars

(***************************************************************************)
(* C12  Bust correctness: a roll is a bust exactly when every face it      *)
(* shows is already in selectedFaces; processRoll leaves the turn state of *)
(* a bust untouched; and a bust always ends the turn: with tiles left in   *)
(* the supply the next participant becomes current with a fresh turn state.*)
(***************************************************************************)
AllFacesSelected(turnState, diceResults) ==
    \A i \in 1..Len(diceResults) :
        Includes(turnState.selectedFaces, diceResults[i])

BustEndsTurn ==
    [][(RollStep /\ game.turnState.availableDice > 0) =>
        /\ BustStep <=> AllFacesSelected(game.turnState, reply'.dice)
        /\ BustStep =>
              /\ processRoll(game, reply'.dice).game.turnState = game.turnState
              /\ Len(game'.tiles) > 0 => Rotated]_vars

(***************************************************************************)
(* C13  Bust resolves like stop: the state after a roll_dice that busts is *)
(* the state stop_turn produces from the same state (supply, stacks, next  *)
(* participant, turn state, game over).                                    *)
(***************************************************************************)
BustLikeStop ==
    [][BustStep =>
        LET stopped == endPlayerTurnBust(roomPlayers, game, game.currentPlayerId)
        IN  /\ game' = stopped.game
            /\ status' = IF stopped.gameOver THEN "finished" ELSE status]_vars

(***************************************************************************)
(* C14  Face commitment errors: select_face of a face already in           *)
(* selectedFaces fails with "Face already selected this turn"; of a face   *)
(* not selected before and absent from rolledDice it fails with "Face not  *)
(* in current roll" (the code tests in this order); a failed select_face   *)
(* leaves the game unchanged; no face is twice in selectedFaces.           *)
(***************************************************************************)
SelectStep == ByCurrent /\ reply'.type = "select_face"

NoDuplicates(s) == \A i, j \in 1..Len(s) : s[i] = s[j] => i = j

FaceCommitErrors ==
    [][/\ SelectStep =>
            /\ Includes(game.turnState.selectedFaces, reply'.face) =>
                  reply'.error = "Face already selected this turn"
            /\ (/\ ~Includes(game.turnState.selectedFaces, reply'.face)
                /\ ~Includes(game.turnState.rolledDice, reply'.face)) =>
                  reply'.error = "Face not in current roll"
            /\ reply'.out = "error" => game' = game
       /\ game' # NullGame => NoDuplicates(game'.turnState.selectedFaces)]_vars

\* a face shown by the roll but selected earlier in the turn was just refused
RefusedSelectedFace ==
    /\ started
    /\ reply.type = "select_face"
    /\ reply.error = "Face already selected this turn"
    /\ Includes(game.turnState.rolledDice, reply.face)

(***************************************************************************)
(* C15  Face commitment effect: a successful select_face of f with c dice  *)
(* showing f adds value(f) * c to currentScore (5 for the worm, else the   *)
(* face's number), takes c from availableDice, appends f to selectedFaces, *)
(* sets hasWorm for the worm and otherwise leaves it, empties rolledDice   *)
(* and changes neither the supply, nor a stack, nor the current            *)
(* participant.                                                            *)
(***************************************************************************)
FaceNumber(f) ==
    CASE f = "worm" -> 5
      [] f = "1" -> 1
      [] f = "2" -> 2
      [] f = "3" -> 3
      [] f = "4" -> 4
      [] f = "5" -> 5

FaceCommitEffect ==
    [][(SelectStep /\ reply'.out = "face_selected") =>
        LET f == reply'.face
            before == game.turnState
            after == game'.turnState
            c == Count(before.rolledDice, f)
        IN  /\ c > 0
            /\ after.currentScore = before.currentScore + FaceNumber(f) * c
            /\ after.availableDice = before.availableDice - c
            /\ after.selectedFaces = Append(before.selectedFaces, f)
            /\ after.hasWorm = IF f = "worm" THEN TRUE ELSE before.hasWorm
            /\ after.rolledDice = <<>>
            /\ game'.tiles = game.tiles
            /\ game'.playerStacks = game.playerStacks
            /\ game'.currentPlayerIndex = game.currentPlayerIndex
            /\ game'.currentPlayerId = game.currentPlayerId]_vars

\* five worms were just selected from a fresh roll
SelectedFiveWorms ==
    /\ started
    /\ reply.out = "face_selected"
    /\ reply.face = "worm"
    /\ game.turnState.currentScore = 25
    /\ game.turnState.availableDice = 3
    /\ game.turnState.hasWorm

(***************************************************************************)
(* C16  Dice accounting: availableDice is in 0..8 and is 8 minus the dice  *)
(* set aside by the faces selected so far in the turn.                     *)
(***************************************************************************)
RECURSIVE SumSeq(_)
SumSeq(s) == IF s = <<>> THEN 0 ELSE Head(s) + SumSeq(Tail(s))

DiceAccounting ==
    started =>
        /\ game.turnState.availableDice \in 0..8
        /\ Len(consumed) = Len(game.turnState.selectedFaces)
        /\ game.turnState.availableDice = 8 - SumSeq(consumed)

\* two faces selected and every die set aside
AllDiceSetAside ==
    /\ started
    /\ Len(game.turnState.selectedFaces) = 2
    /\ game.turnState.availableDice = 0

(***************************************************************************)
(* C17  Supply ordering: in every state of a game the supply holds tiles   *)
(* only, strictly ascending by number.                                     *)
(***************************************************************************)
SupplyAscending ==
    started =>
        /\ \A i \in 1..Len(game.tiles) : game.tiles[i] # Undefined
        /\ \A i, j \in 1..Len(game.tiles) :
              i < j => game.tiles[i] < game.tiles[j]

(***************************************************************************)
(* calculateWinner on its own: the stacks are drawn from short sequences   *)
(* over a few tiles and undefined (no tile on two stacks, the rest of the  *)
(* tiles in the supply), the participants from two orders, and the         *)
(* function is applied once.                                               *)
(***************************************************************************)
MaxStack == 2

WinnerTileArgs == {21, 22, 25, Undefined}

WinnerOrders == {<<"p1", "p2", "p3">>, <<"p3", "p1", "p2">>}

StackArgs ==
    UNION {[1..n -> WinnerTileArgs] : n \in 0..MaxStack}

InitWinner ==
    /\ playersMap = PlayerIds
    /\ roomExists = TRUE
    /\ roomPlayers \in WinnerOrders
    /\ status = "playing"
    /\ \E s1 \in StackArgs :
         \E s2 \in {s \in StackArgs :
                      Range(s) \cap Range(s1) \subseteq {Undefined}} :
           \E s3 \in {s \in StackArgs :
                        Range(s) \cap (Range(s1) \cup Range(s2))
                            \subseteq {Undefined}} :
             /\ NoDuplicates(SelectSeq(s1 \o s2 \o s3,
                                       LAMBDA t : t # Undefined))
             /\ game = [initializeGame(roomPlayers) EXCEPT
                          !.playerStacks = [p \in PlayerIds |->
                               IF p = "p1" THEN s1
                               ELSE IF p = "p2" THEN s2 ELSE s3],
                          !.tiles = SelectSeq(TILES, LAMBDA t :
                               t \notin Range(s1 \o s2 \o s3))]
    /\ reply = Reply("start_game", "p1", "", NoArg, "game_started", "")
    /\ turns = 0
    /\ consumed = <<>>

CalculateWinner ==
    /\ reply' = [type |-> "game_over", winner |-> calculateWinner(game)]
    /\ UNCHANGED <<playersMap, roomExists, roomPlayers, status, game, turns,
                   consumed>>

NextWinner == CalculateWinner

SpecWinner == InitWinner /\ [][NextWinner]_vars

(***************************************************************************)
(* C18  Winner computation: on stacks of tiles calculateWinner returns a   *)
(* participant whose stack has the greatest sum of worms, with that sum,   *)
(* and among several such participants the first in participant order.     *)
(***************************************************************************)
Computed == reply.type = "game_over" /\ ~reply.winner.threw

WormsOf(i) == totalWorms(game.playerStacks[game.stackKeys[i]])

WinnerIsFirstMax ==
    (reply.type = "game_over" /\ ~winnerThrows(game)) =>
        /\ ~reply.winner.threw
        /\ \E i \in 1..Len(game.stackKeys) :
              /\ reply.winner.winnerId = game.stackKeys[i]
              /\ reply.winner.worms = WormsOf(i)
              /\ \A j \in 1..Len(game.stackKeys) : WormsOf(j) <= WormsOf(i)
              /\ \A j \in 1..(i - 1) : WormsOf(j) < WormsOf(i)

\* the second participant won a tie with the third, with two tiles against one
TieWon ==
    /\ Computed
    /\ reply.winner.winnerId = game.stackKeys[2]
    /\ reply.winner.worms = 2
    /\ WormsOf(3) = 2
    /\ Len(game.playerStacks[game.stackKeys[2]]) = 2

(***************************************************************************)
(* C19  Abort leaves a consistent state: a game message answered "Server   *)
(* error" from the catch branch leaves the game (supply, stacks, current   *)
(* participant, turn state) and the room status as they were.              *)
(***************************************************************************)
AbortKeepsState ==
    [][(/\ started
        /\ reply'.type \in GameMessages
        /\ reply'.error = "Server error")
       => /\ game' = game
          /\ status' = status]_vars

(***************************************************************************)
(* C20  Explicit claim legality: select_tile by the current participant    *)
(* naming a tile that is no legal claim (no worm, or score below 21, or    *)
(* the number is neither the score with that tile in the supply or on top  *)
(* of another stack, nor the highest supply tile below the score) is       *)
(* answered with an error and moves no tile.                               *)
(***************************************************************************)
LegalClaim(n) ==
    LET s == game.turnState.currentScore
    IN  /\ game.turnState.hasWorm
        /\ s >= 21
        /\ \/ n = s /\ Includes(game.tiles, s)
           \/ n = s /\ OthersTopIs(s)
           \/ Includes(game.tiles, n) /\ IsHighestBelow(game.tiles, s, n)

IllegalClaimRejected ==
    [][\A n \in TileNumberArgs :
        (/\ ByCurrent
         /\ reply'.type = "select_tile"
         /\ reply'.tile = TileObject(n)
         /\ ~LegalClaim(n))
        => /\ reply'.out = "error"
           /\ game'.tiles = game.tiles
           /\ game'.playerStacks = game.playerStacks]_vars

(***************************************************************************)
(* C21  The supply never empties: in every state of a started game the     *)
(* supply is non-empty with tile 21 at its first position, no resolution   *)
(* has answered game_over and the room status is not "finished".           *)
(***************************************************************************)
SupplyKeepsLowestTile ==
    started =>
        /\ Len(game.tiles) > 0
        /\ game.tiles[1] = 21
        /\ reply.out # "game_over"
        /\ status # "finished"

\* select_tile named the lowest tile: tile 22 was taken and 21 stayed
NamedLowestTile ==
    /\ started
    /\ reply.type = "select_tile"
    /\ reply.tile = TileObject(21)
    /\ reply.out = "turn_ended"
    /\ game.tiles[1] = 21
    /\ ~Includes(game.tiles, 22)

(***************************************************************************)
(* C22  The current participant stays in the room: in every state of a     *)
(* started game whose room exists, currentPlayerId is in room.players and  *)
(* is room.players[currentPlayerIndex].                                    *)
(***************************************************************************)
CurrentPlayerInRoom ==
    (started /\ roomExists) =>
        /\ Includes(roomPlayers, game.currentPlayerId)
        /\ game.currentPlayerIndex < Len(roomPlayers)
        /\ roomPlayers[game.currentPlayerIndex + 1] = game.currentPlayerId

====
